---- MODULE Spec2Model ----
(***************************************************************************)
(* Model of cdev.py: the entity classes (Root, Namespace, File, XML,       *)
(* Query, Operation and its subclasses), the CacheInstance client and its  *)
(* shared transport routine _request.                                      *)
(*                                                                         *)
(* Python values are tagged records.  A str is a sequence of one-character *)
(* strings, so that formatting, base64 and JSON escaping are computed.     *)
(* A call of a client method is one action; the server's behaviour for the *)
(* (at most one) HTTP exchange of the call is an input of the action.      *)
(***************************************************************************)
EXTENDS Integers, Sequences, FiniteSets, TLC

VARIABLES client, call, sent, reply, outcome

vars == <<client, call, sent, reply, outcome>>

(***************************************************************************)
(* Bounds of the model.                                                    *)
(***************************************************************************)
\* longest file content handed to add_file
MaxLen == 2
\* longest list a server response holds
MaxList == 2

(***************************************************************************)
(* Python values.                                                          *)
(***************************************************************************)
PyNone == [t |-> "None"]
PyStr(s) == [t |-> "str", s |-> s]
PyBool(b) == [t |-> "bool", b |-> b]
PyInt(n) == [t |-> "int", n |-> n]
PyDict(d) == [t |-> "dict", d |-> d]
PyList(l) == [t |-> "list", l |-> l]
\* an instance of a class of the module; d is its __dict__
PyObj(cls, d) == [t |-> "obj", cls |-> cls, d |-> d]

\* the empty __dict__ / the empty dict
Empty == <<>>

\* truth value of a Python value (if x: ...)
Truthy(v) ==
  CASE v.t = "None" -> FALSE
    [] v.t = "str" -> v.s # <<>>
    [] v.t = "bool" -> v.b
    [] v.t = "int" -> v.n # 0
    [] v.t = "dict" -> DOMAIN v.d # {}
    [] v.t = "list" -> v.l # <<>>
    [] OTHER -> TRUE

\* hasattr(v, name)
hasattr(v, name) == v.t = "obj" /\ name \in DOMAIN v.d

(***************************************************************************)
(* Results of evaluating Python code: a value, or an exception.            *)
(* msg is str(e) of the exception; code is CDevException.code.             *)
(***************************************************************************)
Return(v) == [exc |-> "", code |-> 0, msg |-> "", v |-> v]
Raise(e, m) == [exc |-> e, code |-> 0, msg |-> m, v |-> PyNone]

\* class CDevException: code, desc
CDevException(code, desc) == [exc |-> "CDevException", code |-> code, msg |-> desc, v |-> PyNone]

\* repr of a type name in the messages of TypeError
TypeName(v) ==
  CASE v.t = "None" -> "NoneType"
    [] v.t = "obj" -> v.cls
    [] OTHER -> v.t

\* obj[key] with a str key
Subscript(obj, key) ==
  CASE obj.t = "dict" ->
         IF key \in DOMAIN obj.d THEN Return(obj.d[key])
         ELSE Raise("KeyError", "'" \o key \o "'")
    [] obj.t = "list" ->
         Raise("TypeError", "list indices must be integers or slices, not str")
    [] obj.t = "str" ->
         Raise("TypeError", "string indices must be integers, not 'str'")
    [] OTHER ->
         Raise("TypeError", "'" \o TypeName(obj) \o "' object is not subscriptable")

\* key in obj, for a dict obj and a str key
In(key, obj) == obj.t = "dict" /\ key \in DOMAIN obj.d

\* the entries of the dict obj whose keys are in keys: what a run of
\* "if 'k' in obj: self.k = obj['k']" statements adds to __dict__
Optional(obj, keys) == [k \in (keys \cap DOMAIN obj.d) |-> obj.d[k]]

\* the first exception among obj[k] for k in keys, in order; Return when none
RECURSIVE Required(_, _)
Required(obj, keys) ==
  IF keys = <<>> THEN Return(PyNone)
  ELSE LET r == Subscript(obj, Head(keys))
       IN IF r.exc # "" THEN r ELSE Required(obj, Tail(keys))

\* a set of strings as a sequence
RECURSIVE SetToSeq(_)
SetToSeq(S) ==
  IF S = {} THEN <<>>
  ELSE LET x == CHOOSE y \in S : TRUE IN <<x>> \o SetToSeq(S \ {x})

\* for x in v: the items, or TypeError.  A dict yields its keys (each key a
\* str, held here as one element), a str its characters.
Iterate(v) ==
  CASE v.t = "list" -> Return(PyList(v.l))
    [] v.t = "dict" ->
         LET ks == SetToSeq(DOMAIN v.d)
         IN Return(PyList([i \in 1..Len(ks) |-> PyStr(<<ks[i]>>)]))
    [] v.t = "str" -> Return(PyList([i \in 1..Len(v.s) |-> PyStr(<<v.s[i]>>)]))
    [] OTHER -> Raise("TypeError", "'" \o TypeName(v) \o "' object is not iterable")

(***************************************************************************)
(* The entity classes.  Each constructor yields the object or the first    *)
(* exception its statements raise.                                         *)
(***************************************************************************)
\* class Root
Root(obj) ==
  LET r == Required(obj, <<"namespaces">>)
  IN IF r.exc # "" THEN r
     ELSE Return(PyObj("Root", [namespaces |-> obj.d["namespaces"]]))

\* class Namespace
Namespace(obj) ==
  LET r == Required(obj, <<"id", "name", "files", "xml", "queries">>)
  IN IF r.exc # "" THEN r
     ELSE Return(PyObj("Namespace",
            [k \in {"id", "name", "files", "xml", "queries"} |-> obj.d[k]]))

\* CodeEntity.__init__ as it would be if it gave an entity without content
\* the empty string for content
CodeEntityDefaulted(cls, obj) ==
  LET r == Required(obj, <<"id">>)
  IN IF r.exc # "" THEN r
     ELSE Return(PyObj(cls, [id |-> obj.d["id"]]
                            @@ Optional(obj, {"content"})
                            @@ [content |-> PyStr(<<>>)]))

\* CodeEntity.__init__ run on an object of class cls
CodeEntity(cls, obj) ==
  LET r == Required(obj, <<"id">>)
  IN IF r.exc # "" THEN r
     ELSE Return(PyObj(cls, [id |-> obj.d["id"]] @@ Optional(obj, {"content"})))

\* class File(CodeEntity)
File(obj) ==
  LET base == CodeEntity("File", obj)
      r == Required(obj, <<"name">>)
  IN IF base.exc # "" THEN base
     ELSE IF r.exc # "" THEN r
     ELSE Return(PyObj("File",
            base.v.d @@ [name |-> obj.d["name"]]
                     @@ Optional(obj, {"generatedfiles", "url", "xml"})))

\* class XML(CodeEntity)
XML(obj) == CodeEntity("XML", obj)

\* class Query(CodeEntity)
Query(obj) ==
  LET base == CodeEntity("Query", obj)
      r == Required(obj, <<"plan", "cached">>)
  IN IF base.exc # "" THEN base
     ELSE IF r.exc # "" THEN r
     ELSE Return(PyObj("Query",
            base.v.d @@ [plan |-> obj.d["plan"], cached |-> obj.d["cached"]]))

\* Operation.__init__ as it would be if it read obj['errors'] without the
\* test for the key
OperationReadsErrors(cls, obj) ==
  LET r == Required(obj, <<"success", "errors">>)
  IN IF r.exc # "" THEN r
     ELSE Return(PyObj(cls, [success |-> obj.d["success"], errors |-> obj.d["errors"]]))

\* Operation.__init__ run on an object of class cls
Operation(cls, obj) ==
  LET r == Required(obj, <<"success">>)
  IN IF r.exc # "" THEN r
     ELSE Return(PyObj(cls, [success |-> obj.d["success"]] @@ Optional(obj, {"errors"})))

\* class FileOperation(Operation)
FileOperation(obj) ==
  LET base == Operation("FileOperation", obj)
  IN IF base.exc # "" THEN base
     ELSE IF ~In("file", obj) THEN base
     ELSE LET f == File(obj.d["file"])
          IN IF f.exc # "" THEN f
             ELSE Return(PyObj("FileOperation", base.v.d @@ [file |-> f.v]))

\* class XMLOperation(Operation)
XMLOperation(obj) ==
  LET base == Operation("XMLOperation", obj)
  IN IF base.exc # "" THEN base
     ELSE LET x == IF In("xml", obj) THEN XML(obj.d["xml"]) ELSE Return(PyNone)
              f == IF In("file", obj) THEN File(obj.d["file"]) ELSE Return(PyNone)
          IN IF x.exc # "" THEN x
             ELSE IF f.exc # "" THEN f
             ELSE Return(PyObj("XMLOperation",
                    base.v.d
                    @@ (IF In("xml", obj) THEN [xml |-> x.v] ELSE Empty)
                    @@ (IF In("file", obj) THEN [file |-> f.v] ELSE Empty)))

\* class QueryOperation(Operation)
QueryOperation(obj) ==
  LET base == Operation("QueryOperation", obj)
  IN IF base.exc # "" THEN base
     ELSE LET q == IF In("query", obj) THEN Query(obj.d["query"]) ELSE Return(PyNone)
          IN IF q.exc # "" THEN q
             ELSE Return(PyObj("QueryOperation",
                    base.v.d
                    @@ Optional(obj, {"resultset"})
                    @@ (IF In("query", obj) THEN [query |-> q.v] ELSE Empty)))

\* cls(obj) for the class named cls
New(cls, obj) ==
  CASE cls = "Namespace" -> Namespace(obj)
    [] cls = "File" -> File(obj)
    [] cls = "XML" -> XML(obj)
    [] cls = "Query" -> Query(obj)
    [] cls = "FileOperation" -> FileOperation(obj)
    [] cls = "XMLOperation" -> XMLOperation(obj)
    [] cls = "QueryOperation" -> QueryOperation(obj)

\* the loop of [cls(x) for x in items] over a sequence: the list built, or
\* the first exception
RECURSIVE Comprehend(_, _, _)
Comprehend(cls, items, acc) ==
  IF items = <<>> THEN Return(PyList(acc))
  ELSE LET r == New(cls, Head(items))
       IN IF r.exc # "" THEN r ELSE Comprehend(cls, Tail(items), Append(acc, r.v))

\* [cls(x) for x in v]
ListOf(cls, v) ==
  LET it == Iterate(v)
  IN IF it.exc # "" THEN it ELSE Comprehend(cls, it.v.l, <<>>)

(***************************************************************************)
(* JSON on the wire.  A document is a tree; a string of it is the sequence *)
(* of characters between the quotes of its literal, escapes included.      *)
(***************************************************************************)
JNull == [j |-> "null"]
JBool(b) == [j |-> "bool", b |-> b]
JNum(n) == [j |-> "num", n |-> n]
JString(lit) == [j |-> "string", lit |-> lit]
JArray(items) == [j |-> "array", items |-> items]
JObject(members) == [j |-> "object", members |-> members]

\* the literal json.dumps writes for the characters s
RECURSIVE JsonEscape(_)
JsonEscape(s) ==
  IF s = <<>> THEN <<>>
  ELSE LET c == Head(s)
           e == CASE c = "\"" -> <<"\\", "\"">>
                  [] c = "\\" -> <<"\\", "\\">>
                  [] c = "\n" -> <<"\\", "n">>
                  [] c = "\r" -> <<"\\", "r">>
                  [] c = "\t" -> <<"\\", "t">>
                  [] OTHER -> <<c>>
       IN e \o JsonEscape(Tail(s))

\* the characters json.loads reads from the literal lit
RECURSIVE JsonUnescape(_)
JsonUnescape(lit) ==
  IF lit = <<>> THEN <<>>
  ELSE IF Head(lit) = "\\" /\ Len(lit) >= 2
       THEN LET c == lit[2]
                u == CASE c = "n" -> "\n"
                       [] c = "r" -> "\r"
                       [] c = "t" -> "\t"
                       [] OTHER -> c
            IN <<u>> \o JsonUnescape(SubSeq(lit, 3, Len(lit)))
       ELSE <<Head(lit)>> \o JsonUnescape(Tail(lit))

\* json.dumps(v) for the values the client serializes
RECURSIVE JsonDumps(_)
JsonDumps(v) ==
  CASE v.t = "None" -> JNull
    [] v.t = "bool" -> JBool(v.b)
    [] v.t = "int" -> JNum(v.n)
    [] v.t = "str" -> JString(JsonEscape(v.s))
    [] v.t = "list" -> JArray([i \in 1..Len(v.l) |-> JsonDumps(v.l[i])])
    [] v.t = "dict" -> JObject([k \in DOMAIN v.d |-> JsonDumps(v.d[k])])

\* the value json.loads builds from a document
RECURSIVE JsonValue(_)
JsonValue(doc) ==
  CASE doc.j = "null" -> PyNone
    [] doc.j = "bool" -> PyBool(doc.b)
    [] doc.j = "num" -> PyInt(doc.n)
    [] doc.j = "string" -> PyStr(JsonUnescape(doc.lit))
    [] doc.j = "array" -> PyList([i \in 1..Len(doc.items) |-> JsonValue(doc.items[i])])
    [] doc.j = "object" -> PyDict([k \in DOMAIN doc.members |-> JsonValue(doc.members[k])])

\* a response body: bytes that are a JSON document, text that is not JSON,
\* or bytes that are not UTF-8
JsonText(doc) == [form |-> "json", doc |-> doc]
Garbage == [form |-> "garbage"]
Binary == [form |-> "binary"]

\* json.loads(response.read().decode())
ReadJson(text) ==
  CASE text.form = "binary" ->
         Raise("UnicodeDecodeError", "'utf-8' codec can't decode byte 0xff in position 0: invalid start byte")
    [] text.form = "garbage" ->
         Raise("JSONDecodeError", "Expecting value: line 1 column 1 (char 0)")
    [] OTHER -> Return(JsonValue(text.doc))

(***************************************************************************)
(* base64.b64encode                                                        *)
(***************************************************************************)
\* ord(c) of the characters credentials are made of
Ord ==
  ("_" :> 95) @@ ("S" :> 83) @@ ("Y" :> 89) @@ ("T" :> 84) @@ ("E" :> 69) @@
  ("M" :> 77) @@ (":" :> 58) @@ ("u" :> 117) @@ ("p" :> 112) @@ ("a" :> 97) @@
  ("b" :> 98) @@ ("N" :> 78) @@ ("o" :> 111) @@ ("n" :> 110) @@ ("e" :> 101)

\* str.encode()
Encode(s) == [i \in 1..Len(s) |-> Ord[s[i]]]

B64Alphabet ==
  <<"A", "B", "C", "D", "E", "F", "G", "H", "I", "J", "K", "L", "M", "N", "O", "P",
    "Q", "R", "S", "T", "U", "V", "W", "X", "Y", "Z", "a", "b", "c", "d", "e", "f",
    "g", "h", "i", "j", "k", "l", "m", "n", "o", "p", "q", "r", "s", "t", "u", "v",
    "w", "x", "y", "z", "0", "1", "2", "3", "4", "5", "6", "7", "8", "9", "+", "/">>

\* the digit of the 6-bit group number k (from the right) of n
Sextet(n, k) == B64Alphabet[((n \div (64 ^ k)) % 64) + 1]

\* base64.b64encode(bytes).decode()
RECURSIVE b64encode(_)
b64encode(bytes) ==
  CASE Len(bytes) = 0 -> <<>>
    [] Len(bytes) = 1 ->
         LET n == bytes[1] * 16
         IN <<Sextet(n, 1), Sextet(n, 0), "=", "=">>
    [] Len(bytes) = 2 ->
         LET n == (bytes[1] * 256 + bytes[2]) * 4
         IN <<Sextet(n, 2), Sextet(n, 1), Sextet(n, 0), "=">>
    [] OTHER ->
         LET n == bytes[1] * 65536 + bytes[2] * 256 + bytes[3]
         IN <<Sextet(n, 3), Sextet(n, 2), Sextet(n, 1), Sextet(n, 0)>>
            \o b64encode(SubSeq(bytes, 4, Len(bytes)))

(***************************************************************************)
(* class CacheInstance                                                     *)
(***************************************************************************)
Digits == <<"0", "1", "2", "3", "4", "5", "6", "7", "8", "9">>

\* '{0}'.format(n) of a natural number
RECURSIVE FormatInt(_)
FormatInt(n) ==
  IF n < 10 THEN <<Digits[n + 1]>>
  ELSE FormatInt(n \div 10) \o <<Digits[(n % 10) + 1]>>

\* '{0}'.format(v) of a str, an int or None
Format(v) ==
  CASE v.t = "int" -> FormatInt(v.n)
    [] v.t = "None" -> <<"N", "o", "n", "e">>
    [] OTHER -> v.s

\* CacheInstance.url_prefix
url_prefix(self) ==
  <<"h", "t", "t", "p", ":", "/", "/">> \o Format(self.d.host)
    \o <<":">> \o Format(self.d.port)

\* the Authorization header as it would be if _request tested
\* "username or password"
AuthHeadersEither(self) ==
  IF Truthy(self.d.username) \/ Truthy(self.d.password)
  THEN LET base64string ==
             b64encode(Encode(Format(self.d.username) \o <<":">> \o Format(self.d.password)))
       IN [Authorization |-> PyStr(<<"B", "a", "s", "i", "c", " ">> \o base64string)]
  ELSE Empty

\* the Authorization header of _request, when it sets one
AuthHeaders(self) ==
  IF Truthy(self.d.username) /\ Truthy(self.d.password)
  THEN LET base64string ==
             b64encode(Encode(Format(self.d.username) \o <<":">> \o Format(self.d.password)))
       IN [Authorization |-> PyStr(<<"B", "a", "s", "i", "c", " ">> \o base64string)]
  ELSE Empty

\* str(e) of the exception urlopen raises when the request does not get to
\* a response
TransportMessage(rep) ==
  CASE rep.kind = "URLError" -> "<urlopen error [Errno 111] Connection refused>"
    [] rep.kind = "RemoteDisconnected" -> "Remote end closed connection without response"

\* what urlopen does with the request, given the server's behaviour rep:
\* the except clause of _request, then the decoding of the body
Exchange(rep) ==
  CASE rep.kind = "URLError" ->
         \* the handler calls e.read(), which a URLError does not have
         Raise("AttributeError", "'URLError' object has no attribute 'read'")
    [] rep.kind = "HTTPError" -> Return(PyNone)
    [] rep.kind = "RemoteDisconnected" ->
         Raise("RemoteDisconnected", TransportMessage(rep))
    [] OTHER -> ReadJson(rep.text)

\* _request as it would be with a retry: a request that gets no response
\* is handed to urlopen once more
_requestRetrying(self, url, method, data, rep) ==
  LET body == IF Truthy(data) /\ data.t = "obj" THEN PyDict(data.d) ELSE data
      requestData == IF Truthy(body) THEN JsonText(JsonDumps(body)) ELSE [form |-> "none"]
      contentType == IF Truthy(body)
                     THEN ("Content-Type" :> PyStr(<<"a", "p", "p", "l", "i", "c", "a", "t", "i", "o", "n", "/", "j", "s", "o", "n">>))
                     ELSE Empty
  IN IF url.t # "str"
     THEN [res |-> Raise("TypeError", "can only concatenate str (not \""
                                       \o TypeName(url) \o "\") to str"),
           sent |-> <<>>]
     ELSE LET request == [url |-> url_prefix(self) \o url.s,
                          headers |-> AuthHeaders(self) @@ contentType,
                          data |-> requestData,
                          method |-> method]
          IN [res |-> Exchange(rep),
              sent |-> IF rep.kind \in {"URLError", "RemoteDisconnected"}
                       THEN <<request, request>>
                       ELSE <<request>>]

\* CacheInstance._request: the result, and the requests handed to urlopen
_request(self, url, method, data, rep) ==
  LET body == IF Truthy(data) /\ data.t = "obj" THEN PyDict(data.d) ELSE data
      requestData == IF Truthy(body) THEN JsonText(JsonDumps(body)) ELSE [form |-> "none"]
      contentType == IF Truthy(body)
                     THEN ("Content-Type" :> PyStr(<<"a", "p", "p", "l", "i", "c", "a", "t", "i", "o", "n", "/", "j", "s", "o", "n">>))
                     ELSE Empty
  IN IF url.t # "str"
     THEN [res |-> Raise("TypeError", "can only concatenate str (not \""
                                       \o TypeName(url) \o "\") to str"),
           sent |-> <<>>]
     ELSE LET request == [url |-> url_prefix(self) \o url.s,
                          headers |-> AuthHeaders(self) @@ contentType,
                          data |-> requestData,
                          method |-> method]
          IN [res |-> Exchange(rep), sent |-> <<request>>]

\* the rest of a method after its call of _request: decode applied to the
\* result, unless _request raised
Then(q, decoded) == IF q.res.exc # "" THEN q ELSE [res |-> decoded, sent |-> q.sent]

\* a method that raises before it calls _request
Fails(e, m) == [res |-> Raise(e, m), sent |-> <<>>]

\* obj.name, for a method that goes on with the value
NoAttribute(obj, name) ==
  Fails("AttributeError", "'" \o obj.cls \o "' object has no attribute '" \o name \o "'")

\* the discovery path
rootUrl == PyStr(<<"/", "c", "s", "p", "/", "s", "y", "s", "/", "d", "e", "v", "/">>)

\* CacheInstance.__init__: the object when it returns, else the exception
CacheInstance(host, web_server_port, username, password, rep) ==
  LET self == PyObj("CacheInstance",
                [host |-> host, port |-> web_server_port,
                 username |-> username, password |-> password])
      q == _request(self, rootUrl, "GET", PyNone, rep)
      root == Root(q.res.v)
  IN IF q.res.exc # ""
     THEN [res |-> CDevException(44, "Cannot Connect to Server: " \o q.res.msg),
           sent |-> q.sent]
     ELSE IF root.exc # ""
     THEN [res |-> CDevException(54, "Invalid Server Response: " \o root.msg),
           sent |-> q.sent]
     ELSE [res |-> Return(PyObj("CacheInstance",
                     self.d @@ [namespaces |-> root.v.d.namespaces])),
           sent |-> q.sent]

get_namespaces(self, rep) ==
  LET q == _request(self, self.d.namespaces, "GET", PyNone, rep)
  IN Then(q, ListOf("Namespace", q.res.v))

get_files(self, namespace, rep) ==
  LET q == _request(self, namespace.d.files, "GET", PyNone, rep)
  IN Then(q, ListOf("File", q.res.v))

get_file(self, file, rep) ==
  LET q == _request(self, file.d.id, "GET", PyNone, rep)
  IN Then(q, File(q.res.v))

put_file(self, file, rep) ==
  LET q == _request(self, file.d.id, "PUT", file, rep)
  IN Then(q, FileOperation(q.res.v))

add_file(self, namespace, filename, filecontent, rep) ==
  LET data == PyDict([name |-> filename, content |-> filecontent])
      q == _request(self, namespace.d.files, "PUT", data, rep)
  IN Then(q, FileOperation(q.res.v))

compile_file(self, file, spec, rep) ==
  LET command == PyDict([action |-> PyStr(<<"c", "o", "m", "p", "i", "l", "e">>), spec |-> spec])
      q == _request(self, file.d.id, "POST", command, rep)
  IN Then(q, FileOperation(q.res.v))

\* get_generated_files as it would be without the hasattr test
get_generated_filesUnguarded(self, file, rep) ==
  IF ~hasattr(file, "generatedfiles") THEN NoAttribute(file, "generatedfiles")
  ELSE LET q == _request(self, file.d.generatedfiles, "GET", PyNone, rep)
       IN Then(q, ListOf("File", q.res.v))

get_generated_files(self, file, rep) ==
  IF hasattr(file, "generatedfiles")
  THEN LET q == _request(self, file.d.generatedfiles, "GET", PyNone, rep)
       IN Then(q, ListOf("File", q.res.v))
  ELSE [res |-> Return(PyList(<<>>)), sent |-> <<>>]

get_xml(self, file, rep) ==
  IF ~hasattr(file, "xml") THEN NoAttribute(file, "xml")
  ELSE LET q == _request(self, file.d.xml, "GET", PyNone, rep)
       IN Then(q, XML(q.res.v))

put_xml(self, xml, rep) ==
  IF ~hasattr(xml, "content") THEN NoAttribute(xml, "content")
  ELSE LET data == PyDict([content |-> xml.d.content])
           q == _request(self, xml.d.id, "PUT", data, rep)
       IN Then(q, XMLOperation(q.res.v))

add_xml(self, namespace, content, rep) ==
  LET data == PyDict([content |-> content])
      q == _request(self, namespace.d.xml, "PUT", data, rep)
  IN Then(q, XMLOperation(q.res.v))

add_query(self, namespace, text, rep) ==
  LET data == PyDict([content |-> text])
      q == _request(self, namespace.d.queries, "PUT", data, rep)
  IN Then(q, QueryOperation(q.res.v))

execute_query(self, query, rep) ==
  LET data == PyDict([action |-> PyStr(<<"e", "x", "e", "c", "u", "t", "e">>)])
      q == _request(self, query.d.id, "POST", data, rep)
  IN Then(q, QueryOperation(q.res.v))

\* QueryOperation() is called without the argument its __init__ requires
get_query_plan(self, query, rep) ==
  LET q == _request(self, query.d.plan, "GET", PyNone, rep)
  IN Then(q, Raise("TypeError",
       "QueryOperation.__init__() missing 1 required positional argument: 'obj'"))

(***************************************************************************)
(* The inputs: constructor arguments, the entities a caller holds, and the *)
(* behaviour of the server.                                                *)
(***************************************************************************)
\* the host and port of test.py
Host == PyStr(<<"b", "i", "g", "f", "o", "o", "t">>)
Port == PyInt(57776)

Usernames == {PyNone, PyStr(<<>>), PyStr(<<"u">>), PyStr(<<"a", "b">>)}
Passwords == {PyNone, PyStr(<<>>), PyStr(<<"p">>), PyStr(<<"S", "Y", "S">>)}

\* all sequences over S of length at most n
RECURSIVE SeqsUpTo(_, _)
SeqsUpTo(S, n) ==
  IF n = 0 THEN {<<>>}
  ELSE LET shorter == SeqsUpTo(S, n - 1)
       IN shorter \cup {Append(q, x) : q \in shorter, x \in S}

\* file contents: text with both kinds of line ending characters
ContentChars == {"a", "\r", "\n", "\\"}
Contents == {PyStr(c) : c \in SeqsUpTo(ContentChars, MaxLen)}

\* JSON objects the server describes its resources with
NamespaceObj ==
  PyDict([id |-> PyStr(<<"/", "n">>), name |-> PyStr(<<"N">>),
          files |-> PyStr(<<"/", "n", "f">>), xml |-> PyStr(<<"/", "n", "x">>),
          queries |-> PyStr(<<"/", "n", "q">>)])

FileOptions ==
  [content |-> PyStr(<<>>), generatedfiles |-> PyStr(<<"/", "g">>),
   url |-> PyStr(<<"/", "u">>), xml |-> PyStr(<<"/", "x">>)]

FileObjs ==
  {PyDict([id |-> PyStr(<<"/", "f">>), name |-> PyStr(<<"A">>)]
          @@ [k \in ks |-> FileOptions[k]]) : ks \in SUBSET DOMAIN FileOptions}
  \cup {PyDict([id |-> PyStr(<<"/", "f">>), name |-> PyStr(<<"A">>),
                content |-> PyStr(<<"a", "\n">>)])}

ListedFile == PyDict([id |-> PyStr(<<"/", "f">>), name |-> PyStr(<<"A">>)])
EmptyFile == PyDict(ListedFile.d @@ [content |-> PyStr(<<>>)])
CompiledFile ==
  PyDict(ListedFile.d @@ [content |-> PyStr(<<"a">>),
                          generatedfiles |-> PyStr(<<"/", "g">>),
                          xml |-> PyStr(<<"/", "x">>)])

XMLObjs ==
  {PyDict([id |-> PyStr(<<"/", "x">>)]),
   PyDict([id |-> PyStr(<<"/", "x">>), content |-> PyStr(<<"<", "a", "/", ">">>)])}

QueryObjs ==
  {PyDict([id |-> PyStr(<<"/", "q">>), plan |-> PyStr(<<"/", "q", "p">>),
           cached |-> PyBool(FALSE)]),
   PyDict([id |-> PyStr(<<"/", "q">>), plan |-> PyStr(<<"/", "q", "p">>),
           cached |-> PyBool(TRUE), content |-> PyStr(<<"S", "Q", "L">>)])}

\* the payloads an operation result may carry, by key
Payloads ==
  [file |-> CompiledFile,
   xml |-> PyDict([id |-> PyStr(<<"/", "x">>)]),
   resultset |-> PyStr(<<"r">>),
   query |-> PyDict([id |-> PyStr(<<"/", "q">>), plan |-> PyStr(<<"/", "q", "p">>),
                     cached |-> PyBool(TRUE)])]

PayloadKeys == {{}, {"file"}, {"xml"}, {"xml", "file"}, {"resultset"}, {"query"},
                {"resultset", "query"}}

Errors == PyStr(<<"E">>)

OperationObjs ==
  {PyDict([success |-> PyBool(ok)]
          @@ (IF withErrors THEN [errors |-> Errors] ELSE Empty)
          @@ [k \in ks |-> Payloads[k]]) :
     ok \in BOOLEAN, withErrors \in BOOLEAN, ks \in PayloadKeys}

RootObjs ==
  {PyDict([namespaces |-> PyStr(<<"/", "n", "s">>)]),
   PyDict([namespaces |-> PyInt(7)]),
   PyDict(Empty)}

Lists == {PyList(l) : l \in SeqsUpTo({NamespaceObj, ListedFile, EmptyFile}, MaxList)}

\* the values a response body may hold
ServerValues ==
  RootObjs \cup {PyNone} \cup Lists \cup FileObjs \cup XMLObjs \cup OperationObjs

\* what the server, or the network, does with a request
Replies ==
  {[kind |-> "URLError"], [kind |-> "HTTPError"], [kind |-> "RemoteDisconnected"],
   [kind |-> "ok", text |-> Garbage], [kind |-> "ok", text |-> Binary]}
  \cup {[kind |-> "ok", text |-> JsonText(JsonDumps(v))] : v \in ServerValues}

NoReply == [kind |-> "none"]

\* the entities a caller passes to the methods
NamespaceArg == Namespace(NamespaceObj).v
FileArgs == {File(o).v : o \in {ListedFile, EmptyFile, CompiledFile}}
XMLArgs == {XML(o).v : o \in XMLObjs}
QueryArgs == {Query(o).v : o \in QueryObjs}
Specs == {PyStr(<<>>), PyStr(<<"c", "k">>)}
Filename == PyStr(<<"A">>)

(***************************************************************************)
(* The state machine: a caller that constructs a client, then calls its    *)
(* methods one after the other.                                            *)
(*   client   the CacheInstance the caller holds, None before one is built *)
(*   call     the last call: the method and its arguments                  *)
(*   sent     the requests the last call handed to urlopen                 *)
(*   reply    what the server did with the request of the last call        *)
(*   outcome  what the last call returned or raised                        *)
(* The client is synchronous: a call runs to its end, and the caller takes *)
(* its result before it makes the next call.                               *)
(***************************************************************************)
Init ==
  /\ client = PyNone
  /\ call = [op |-> "none", args |-> <<>>]
  /\ sent = <<>>
  /\ reply = NoReply
  /\ outcome = Return(PyNone)

\* the call op(args) ran as q against the server behaviour rep
Finish(op, args, rep, q) ==
  /\ call' = [op |-> op, args |-> args]
  /\ sent' = q.sent
  /\ reply' = IF q.sent = <<>> THEN NoReply ELSE rep
  /\ outcome' = q.res

\* no call has a result the caller has yet to take
Idle == call.op = "none"

Construct ==
  /\ Idle
  /\ client = PyNone
  /\ \E username \in Usernames, password \in Passwords, rep \in Replies :
       LET q == CacheInstance(Host, Port, username, password, rep)
       IN /\ Finish("CacheInstance", <<Host, Port, username, password>>, rep, q)
          /\ client' = IF q.res.exc = "" THEN q.res.v ELSE PyNone

GetNamespaces ==
  /\ Idle
  /\ client # PyNone
  /\ \E rep \in Replies :
       Finish("get_namespaces", <<>>, rep, get_namespaces(client, rep))
  /\ UNCHANGED client

GetFiles ==
  /\ Idle
  /\ client # PyNone
  /\ \E rep \in Replies :
       Finish("get_files", <<NamespaceArg>>, rep, get_files(client, NamespaceArg, rep))
  /\ UNCHANGED client

GetFile ==
  /\ Idle
  /\ client # PyNone
  /\ \E file \in FileArgs, rep \in Replies :
       Finish("get_file", <<file>>, rep, get_file(client, file, rep))
  /\ UNCHANGED client

PutFile ==
  /\ Idle
  /\ client # PyNone
  /\ \E file \in FileArgs, rep \in Replies :
       Finish("put_file", <<file>>, rep, put_file(client, file, rep))
  /\ UNCHANGED client

AddFile ==
  /\ Idle
  /\ client # PyNone
  /\ \E filecontent \in Contents, rep \in Replies :
       Finish("add_file", <<NamespaceArg, Filename, filecontent>>, rep,
              add_file(client, NamespaceArg, Filename, filecontent, rep))
  /\ UNCHANGED client

CompileFile ==
  /\ Idle
  /\ client # PyNone
  /\ \E file \in FileArgs, spec \in Specs, rep \in Replies :
       Finish("compile_file", <<file, spec>>, rep, compile_file(client, file, spec, rep))
  /\ UNCHANGED client

GetGeneratedFiles ==
  /\ Idle
  /\ client # PyNone
  /\ \E file \in FileArgs, rep \in Replies :
       Finish("get_generated_files", <<file>>, rep, get_generated_files(client, file, rep))
  /\ UNCHANGED client

GetXml ==
  /\ Idle
  /\ client # PyNone
  /\ \E file \in FileArgs, rep \in Replies :
       Finish("get_xml", <<file>>, rep, get_xml(client, file, rep))
  /\ UNCHANGED client

PutXml ==
  /\ Idle
  /\ client # PyNone
  /\ \E xml \in XMLArgs, rep \in Replies :
       Finish("put_xml", <<xml>>, rep, put_xml(client, xml, rep))
  /\ UNCHANGED client

AddXml ==
  /\ Idle
  /\ client # PyNone
  /\ \E xml \in XMLObjs, rep \in Replies :
       /\ In("content", xml)
       /\ Finish("add_xml", <<NamespaceArg, xml.d.content>>, rep,
                 add_xml(client, NamespaceArg, xml.d.content, rep))
  /\ UNCHANGED client

AddQuery ==
  /\ Idle
  /\ client # PyNone
  /\ \E query \in QueryObjs, rep \in Replies :
       /\ In("content", query)
       /\ Finish("add_query", <<NamespaceArg, query.d.content>>, rep,
                 add_query(client, NamespaceArg, query.d.content, rep))
  /\ UNCHANGED client

ExecuteQuery ==
  /\ Idle
  /\ client # PyNone
  /\ \E query \in QueryArgs, rep \in Replies :
       Finish("execute_query", <<query>>, rep, execute_query(client, query, rep))
  /\ UNCHANGED client

GetQueryPlan ==
  /\ Idle
  /\ client # PyNone
  /\ \E query \in QueryArgs, rep \in Replies :
       Finish("get_query_plan", <<query>>, rep, get_query_plan(client, query, rep))
  /\ UNCHANGED client

\* the caller takes the result of the call that ended
TakeResult ==
  /\ ~Idle
  /\ call' = [op |-> "none", args |-> <<>>]
  /\ sent' = <<>>
  /\ reply' = NoReply
  /\ outcome' = Return(PyNone)
  /\ UNCHANGED client

Next ==
  \/ Construct
  \/ GetNamespaces
  \/ GetFiles
  \/ GetFile
  \/ PutFile
  \/ AddFile
  \/ CompileFile
  \/ GetGeneratedFiles
  \/ GetXml
  \/ PutXml
  \/ AddXml
  \/ AddQuery
  \/ ExecuteQuery
  \/ GetQueryPlan
  \/ TakeResult

Spec == Init /\ [][Next]_vars

(***************************************************************************)
(* Properties.                                                             *)
(***************************************************************************)
\* the body of the response of the last call, when it is a JSON document
HasBody == reply.kind = "ok" /\ reply.text.form = "json"
Body == JsonValue(reply.text.doc)

\* the exchange of the last call failed below HTTP: no response arrived
ConnectionFailed == reply.kind \in {"URLError", "RemoteDisconnected"}
\* the exchange of the last call failed: no response, or an HTTP error status
TransportFailed == reply.kind \in {"URLError", "RemoteDisconnected", "HTTPError"}

Constructing == call.op = "CacheInstance"

ResourceMethods ==
  {"get_namespaces", "get_files", "get_file", "put_file", "add_file", "compile_file",
   "get_generated_files", "get_xml", "put_xml", "add_xml", "add_query", "execute_query"}

MutatingMethods ==
  {"put_file", "add_file", "compile_file", "put_xml", "add_xml", "add_query",
   "execute_query"}

\* C1: constructing the client against a reachable server whose discovery
\* response is malformed (not JSON at all, or JSON without 'namespaces')
\* raises CDevException 54, never 44.
C1_MalformedDiscoveryIsProtocolError ==
  (/\ Constructing
   /\ reply.kind = "ok"
   /\ (HasBody => ~In("namespaces", Body)))
  => (outcome.exc = "CDevException" /\ outcome.code = 54)

\* C2: constructing the client when the discovery request fails below HTTP
\* raises CDevException 44 whose description carries the underlying cause,
\* and leaves the caller without a client.
C2_ConnectionErrorCarriesCause ==
  (Constructing /\ ConnectionFailed)
  => (/\ outcome.exc = "CDevException"
      /\ outcome.code = 44
      /\ outcome.msg = "Cannot Connect to Server: " \o TransportMessage(reply)
      /\ client = PyNone)

\* C3: a transport-level error during the HTTP call of a resource method is
\* a soft failure: the method raises nothing.
C3_TransportErrorIsSoft ==
  (call.op \in ResourceMethods /\ TransportFailed) => outcome.exc = ""

\* C4: when the server answers a mutating or executing method with a JSON
\* object whose success is false, the method raises nothing and returns a
\* wrapper whose success is false and whose errors are the server's, present
\* exactly when the server sent them, whatever payload fields came along.
C4_OperationFailureIsData ==
  (/\ call.op \in MutatingMethods
   /\ HasBody
   /\ In("success", Body)
   /\ Body.d.success = PyBool(FALSE))
  => (/\ outcome.exc = ""
      /\ outcome.v.t = "obj"
      /\ outcome.v.d.success = PyBool(FALSE)
      /\ ("errors" \in DOMAIN outcome.v.d) = In("errors", Body)
      /\ (In("errors", Body) => outcome.v.d.errors = Body.d.errors))

C4_Witness ==
  /\ call.op = "put_xml"
  /\ HasBody
  /\ Body = PyDict([success |-> PyBool(FALSE), errors |-> Errors])
  /\ outcome.exc = ""
  /\ outcome.v.d.errors = Errors
  /\ "xml" \notin DOMAIN outcome.v.d

\* the last call was get_generated_files on a File without the locator
NoLocatorCall ==
  call.op = "get_generated_files" /\ ~hasattr(call.args[1], "generatedfiles")

\* C5 as claimed: every call that returns has performed exactly one request.
C5_ExactlyOneRequest ==
  (~Idle /\ outcome.exc = "") => Len(sent) = 1

\* C5 as amended: no call performs more than one request, a failed exchange
\* is not repeated, and a call that returns has performed exactly one
\* request, except get_generated_files on a File without a generatedfiles
\* locator, which returns without any request.
C5_AtMostOneRequest ==
  ~Idle =>
    (/\ Len(sent) <= 1
     /\ (reply # NoReply => Len(sent) = 1)
     /\ (outcome.exc = "" => ((Len(sent) = 0) = NoLocatorCall)))

C5_Witness ==
  /\ NoLocatorCall
  /\ outcome = Return(PyList(<<>>))
  /\ sent = <<>>

\* C6: get_generated_files on a File without a generatedfiles locator
\* returns the empty list and raises nothing, whatever client it is called
\* on; with a locator, and a list of file objects from the server, it
\* returns one File per item, in order.
C6_GeneratedFiles ==
  call.op = "get_generated_files" =>
    (/\ NoLocatorCall => (outcome = Return(PyList(<<>>)) /\ sent = <<>>)
     /\ (/\ ~NoLocatorCall
         /\ HasBody
         /\ Body.t = "list")
        => (/\ outcome.exc = ""
            /\ outcome.v.t = "list"
            /\ Len(outcome.v.l) = Len(Body.l)
            /\ \A i \in 1..Len(Body.l) :
                 /\ outcome.v.l[i].cls = "File"
                 /\ outcome.v.l[i].d.id = Body.l[i].d.id
                 /\ outcome.v.l[i].d.name = Body.l[i].d.name))

C6_Witness ==
  /\ NoLocatorCall
  /\ client.d.username = PyStr(<<"u">>)
  /\ outcome.exc = ""
  /\ outcome.v = PyList(<<>>)

\* the value of a base64 digit
B64Index(c) == (CHOOSE i \in 1..64 : B64Alphabet[i] = c) - 1

\* the bytes a base64 text stands for
RECURSIVE B64Decode(_)
B64Decode(s) ==
  IF Len(s) < 4 THEN <<>>
  ELSE LET digit(k) == IF s[k] = "=" THEN 0 ELSE B64Index(s[k])
           pad == Cardinality({k \in 1..4 : s[k] = "="})
           n == digit(1) * 262144 + digit(2) * 4096 + digit(3) * 64 + digit(4)
           bytes == <<n \div 65536, (n \div 256) % 256, n % 256>>
       IN SubSeq(bytes, 1, 3 - pad) \o B64Decode(SubSeq(s, 5, Len(s)))

\* the credentials the last call ran with
Username == IF Constructing THEN call.args[3] ELSE client.d.username
Password == IF Constructing THEN call.args[4] ELSE client.d.password

NonEmpty(v) == v.t = "str" /\ Len(v.s) > 0

\* C7: a request carries an Authorization header exactly when username and
\* password are both non-empty, and the header is then "Basic " followed by
\* the base64 text of username:password; the discovery request included.
C7_BasicAuth ==
  \A i \in 1..Len(sent) :
    LET h == sent[i].headers
    IN /\ ("Authorization" \in DOMAIN h) = (NonEmpty(Username) /\ NonEmpty(Password))
       /\ "Authorization" \in DOMAIN h =>
            LET a == h["Authorization"].s
            IN /\ SubSeq(a, 1, 6) = <<"B", "a", "s", "i", "c", " ">>
               /\ B64Decode(SubSeq(a, 7, Len(a)))
                    = Encode(Username.s \o <<":">> \o Password.s)

C7_Witness ==
  /\ call.op = "get_file"
  /\ Len(sent) = 1
  /\ "Authorization" \in DOMAIN sent[1].headers
  /\ Username = PyStr(<<"a", "b">>)
  /\ Password = PyStr(<<"p">>)

\* every line ending of s is \r\n
CrLfOnly(s) ==
  \A i \in 1..Len(s) :
    /\ s[i] = "\n" => (i > 1 /\ s[i - 1] = "\r")
    /\ s[i] = "\r" => (i < Len(s) /\ s[i + 1] = "\n")

\* C8: the content add_file puts in the body of its PUT has no line ending
\* other than \r\n.
C8_AddFileNormalizesLineEndings ==
  (call.op = "add_file" /\ Len(sent) = 1)
  => (/\ sent[1].method = "PUT"
      /\ sent[1].url = url_prefix(client) \o NamespaceArg.d.files.s
      /\ CrLfOnly(JsonValue(sent[1].data.doc).d.content.s))

\* each key of keys is an attribute of entity exactly when it is a key of
\* the JSON object source, and then with the value source gives it
Faithful(entity, source, keys) ==
  \A k \in keys :
    /\ (k \in DOMAIN entity.d) = (k \in DOMAIN source.d)
    /\ k \in DOMAIN source.d => entity.d[k] = source.d[k]

FileOptional == {"content", "generatedfiles", "url", "xml"}

\* the entity under key of an operation wrapper, if the source has the key
FaithfulPayload(key, keys) ==
  /\ (key \in DOMAIN outcome.v.d) = (key \in DOMAIN Body.d)
  /\ key \in DOMAIN Body.d => Faithful(outcome.v.d[key], Body.d[key], keys)

\* C9: an optional field is on a decoded entity exactly when its key is in
\* the source JSON object, and holds the source's value: a File of a listing
\* item without content has no content, and a File whose source content is
\* the empty string has the empty string as content.
C9_OptionalFieldsPresentOrAbsent ==
  (HasBody /\ outcome.exc = "") =>
    (/\ call.op = "get_file" => Faithful(outcome.v, Body, FileOptional)
     /\ call.op = "get_xml" => Faithful(outcome.v, Body, {"content"})
     /\ (call.op \in {"get_files", "get_generated_files"} /\ Body.t = "list") =>
          \A i \in 1..Len(Body.l) : Faithful(outcome.v.l[i], Body.l[i], FileOptional)
     /\ call.op \in MutatingMethods =>
          /\ Faithful(outcome.v, Body, {"errors"})
          /\ call.op \in {"put_file", "add_file", "compile_file", "put_xml", "add_xml"}
               => FaithfulPayload("file", FileOptional)
          /\ call.op \in {"put_xml", "add_xml"} => FaithfulPayload("xml", {"content"})
          /\ call.op \in {"add_query", "execute_query"} =>
               /\ Faithful(outcome.v, Body, {"resultset"})
               /\ FaithfulPayload("query", {"content"}))

C9_Witness ==
  /\ call.op = "get_files"
  /\ HasBody
  /\ Body = PyList(<<ListedFile, EmptyFile>>)
  /\ outcome.exc = ""
  /\ "content" \notin DOMAIN outcome.v.l[1].d
  /\ outcome.v.l[2].d.content = PyStr(<<>>)

\* C10: get_query_plan sends a GET to the plan locator of the query and,
\* when the server answers with JSON, returns a QueryOperation and raises
\* nothing.
C10_QueryPlanReturnsEmptyOperation ==
  (call.op = "get_query_plan" /\ HasBody)
  => (/\ sent[1].method = "GET"
      /\ sent[1].url = url_prefix(client) \o call.args[1].d.plan.s
      /\ outcome.exc = ""
      /\ outcome.v.t = "obj"
      /\ outcome.v.cls = "QueryOperation")

====
